---- MODULE Spec2Model ----
(***************************************************************************)
(* Task lifecycle and time-window engine of simplicity-todo.               *)
(*                                                                         *)
(* Time is counted in minutes; minute 0 is a local midnight, so the time   *)
(* of day of an instant t is t % (24 * 60).  The SQLite tables are the     *)
(* variables tasks / settings / time_periods, the zustand stores are the   *)
(* variables activeTasks / archivedTasks / timePeriods, the notifications  *)
(* the operating system holds are the variable scheduled, and every async  *)
(* store call that is suspended at an await is one record of pending.      *)
(***************************************************************************)
EXTENDS Integers, Sequences, FiniteSets, TLC

VARIABLES
    now,            \* the device clock (Date.now()), in minutes
    tasks,          \* table tasks: id -> row
    nextId,         \* AUTOINCREMENT counter of table tasks
    activeTasks,    \* taskStore.activeTasks (cache, ordered by created_at)
    archivedTasks,  \* taskStore.archivedTasks (cache): finished / unfinished rows
    settings,       \* table settings, row 1 (and settingsStore.settings)
    time_periods,   \* table time_periods: id -> row
    nextPeriodId,   \* AUTOINCREMENT counter of table time_periods
    timePeriods,    \* settingsStore.timePeriods (cache, ordered by start)
    scheduled,      \* notifications scheduled with the OS: set of [token, at]
    pending,        \* async store calls suspended at an await
    result,         \* what the last call that returned or threw reported
    hist            \* "swept" right after a whole sweep run, "second" inside the run that follows it

vars == <<now, tasks, nextId, activeTasks, archivedTasks, settings, time_periods,
          nextPeriodId, timePeriods, scheduled, pending, result, hist>>

taskVars == <<tasks, nextId, activeTasks, archivedTasks, scheduled, pending>>
periodVars == <<time_periods, nextPeriodId, timePeriods>>

-----------------------------------------------------------------------------
(* Bounds of the model *)

MaxId == 3          \* rows ever inserted into tasks
MaxIdSmall == 2     \* the same, where every operation of the lifecycle runs
MaxPending == 2     \* async calls suspended at the same time
MaxPeriodId == 3    \* rows ever inserted into time_periods
StartNow == 600     \* the clock at first launch: 10:00 of day 0

(* Program constants *)

MAX_TASKS == 2
BUFFER_MINUTES == 30
NULL == -1          \* SQL NULL / undefined in a nullable column

UNDEF == "undefined"

DayMinutes == 24 * 60

\* The instants at which the clock is read.  For a task created at StartNow with the
\* default 6 hours and the default buffer they are: before the deadline, the last
\* minute of the buffer, and the first minute after it.
Instants == {StartNow, StartNow + 6 * 60 + BUFFER_MINUTES, StartNow + 6 * 60 + BUFFER_MINUTES + 1}

\* an edited deadline: later than every instant of the model
LateDeadline == StartNow + 24 * 60

-----------------------------------------------------------------------------
(* timeUtils.ts *)

toMinutes(h, m) == h * 60 + m

getSettings == settings

DefaultPeriod ==
    [id |-> 0, start_hour |-> 5, start_minute |-> 0, end_hour |-> 21, end_minute |-> 0,
     max_duration_hours |-> 6]

getTimePeriods == IF Len(timePeriods) > 0 THEN timePeriods ELSE <<DefaultPeriod>>

isTimeInPeriod(currentHour, currentMinute, startHour, startMinute, endHour, endMinute) ==
    LET current == toMinutes(currentHour, currentMinute)
        start == toMinutes(startHour, startMinute)
        end0 == toMinutes(endHour, endMinute)
    IN  IF end0 <= start
        THEN IF current < start
             THEN toMinutes(currentHour + 24, currentMinute) < end0 + DayMinutes
             ELSE current >= start /\ current < end0 + DayMinutes
        ELSE current >= start /\ current < end0

getHours(t) == (t % DayMinutes) \div 60
getMinutes(t) == (t % DayMinutes) % 60

PeriodContains(p, t) ==
    isTimeInPeriod(getHours(t), getMinutes(t), p.start_hour, p.start_minute,
                   p.end_hour, p.end_minute)

\* the first period, in the cache's order, that contains the time of day of now
getTaskCreationWindow ==
    LET periods == getTimePeriods
        hits == {i \in 1..Len(periods) : PeriodContains(periods[i], now)}
    IN  IF hits = {}
        THEN [canCreate |-> FALSE, maxHours |-> 0]
        ELSE LET first == CHOOSE i \in hits : \A j \in hits : i <= j
             IN  [canCreate |-> TRUE, maxHours |-> periods[first].max_duration_hours]

\* the duration is the constant 6 hours instead of the window's maxHours
calculateDeadlineMutSixHours ==
    LET window == getTaskCreationWindow
    IN  IF ~window.canCreate THEN NULL ELSE now + 6 * 60

\* NULL stands for the thrown 'Cannot create task outside allowed time window'
calculateDeadline ==
    LET window == getTaskCreationWindow
    IN  IF ~window.canCreate THEN NULL ELSE now + window.maxHours * 60

getMaxDeadline ==
    LET window == getTaskCreationWindow
    IN  IF ~window.canCreate THEN NULL ELSE now + window.maxHours * 60

getMinDeadline == now

\* the upper bound is refused as well
validateCustomDeadlineMutGe(deadline) ==
    IF getMaxDeadline = NULL THEN "WindowClosed"
    ELSE IF deadline <= now THEN "DeadlineInPast"
    ELSE IF deadline >= getMaxDeadline THEN "DeadlineTooFar"
    ELSE "ok"

\* "WindowClosed" stands for the Error getMaxDeadline throws
validateCustomDeadline(deadline) ==
    IF getMaxDeadline = NULL THEN "WindowClosed"
    ELSE IF deadline <= now THEN "DeadlineInPast"
    ELSE IF deadline > getMaxDeadline THEN "DeadlineTooFar"
    ELSE "ok"

hasExpiredMutGe(deadline) == now >= deadline + getSettings.buffer_minutes

hasExpired(deadline) ==
    LET bufferEnd == deadline + getSettings.buffer_minutes
    IN  now > bufferEnd

isInBufferPeriod(deadline) ==
    now > deadline /\ now <= deadline + getSettings.buffer_minutes

-----------------------------------------------------------------------------
(* db.ts: table tasks *)

Rows(t) == {t[i] : i \in DOMAIN t}

CreatedAsc(x, y) == x.created_at < y.created_at \/ (x.created_at = y.created_at /\ x.id < y.id)

RECURSIVE OrderByCreatedAt(_)
\* ORDER BY created_at ASC (rows of one instant in rowid order)
OrderByCreatedAt(S) ==
    IF S = {} THEN <<>>
    ELSE LET m == CHOOSE x \in S : \A y \in S \ {x} : CreatedAsc(x, y)
         IN  <<m>> \o OrderByCreatedAt(S \ {m})

db_getActiveTasks(t) == OrderByCreatedAt({r \in Rows(t) : r.status = "active"})

db_getArchivedTasks(t) ==
    [finished |-> {r \in Rows(t) : r.status = "completed"},
     unfinished |-> {r \in Rows(t) : r.status = "expired_unfinished"}]

Insert(t, row) == [i \in DOMAIN t \cup {row.id} |-> IF i = row.id THEN row ELSE t[i]]

\* x || '': an undefined or empty text becomes the empty text
OrEmpty(x) == IF x = UNDEF \/ x = "" THEN "" ELSE x

db_createTask(t, id, task, deadline) ==
    Insert(t, [id |-> id, title |-> task.title, description |-> OrEmpty(task.description),
               created_at |-> now, deadline |-> deadline, status |-> "active",
               completed_at |-> NULL, reactivation_count |-> 0, original_task_id |-> NULL,
               reminder_notification_id |-> NULL, deadline_notification_id |-> NULL])

\* UNDEF / NULL in updates stand for a field that is undefined
db_updateTask(t, taskId, updates) ==
    LET task == t[taskId]
        title == IF updates.title # UNDEF THEN updates.title ELSE task.title
        description == IF updates.description # UNDEF THEN updates.description
                       ELSE task.description
        deadline == IF updates.deadline # NULL THEN updates.deadline ELSE task.deadline
    IN  [t EXCEPT ![taskId].title = title, ![taskId].description = description,
                  ![taskId].deadline = deadline]

\* the reminder token is dropped
db_updateNotificationIdsMutNoReminder(t, taskId, reminderNotificationId, deadlineNotificationId) ==
    IF taskId \in DOMAIN t
    THEN [t EXCEPT ![taskId].deadline_notification_id = deadlineNotificationId]
    ELSE t

db_updateNotificationIds(t, taskId, reminderNotificationId, deadlineNotificationId) ==
    IF taskId \in DOMAIN t
    THEN [t EXCEPT ![taskId].reminder_notification_id = reminderNotificationId,
                   ![taskId].deadline_notification_id = deadlineNotificationId]
    ELSE t

\* the delete cascades to the rows that name taskId as their original
db_deleteTaskMutCascade(t, taskId) ==
    [i \in {j \in DOMAIN t \ {taskId} : t[j].original_task_id # taskId} |-> t[i]]

\* no PRAGMA foreign_keys is issued, so the REFERENCES clause is not enforced
db_deleteTask(t, taskId) == [i \in DOMAIN t \ {taskId} |-> t[i]]

db_completeTask(t, taskId) ==
    IF taskId \in DOMAIN t
    THEN [t EXCEPT ![taskId].status = "completed", ![taskId].completed_at = now]
    ELSE t

db_expireTask(t, taskId) ==
    IF taskId \in DOMAIN t
    THEN [t EXCEPT ![taskId].status = "expired_unfinished"]
    ELSE t

db_reEnableTaskMutSameCount(t, id, originalTaskId) ==
    LET originalTask == t[originalTaskId]
    IN  Insert(t, [id |-> id, title |-> originalTask.title,
                   description |-> OrEmpty(originalTask.description),
                   created_at |-> now, deadline |-> now + 6 * 60, status |-> "active",
                   completed_at |-> NULL,
                   reactivation_count |-> originalTask.reactivation_count,
                   original_task_id |-> originalTaskId,
                   reminder_notification_id |-> NULL, deadline_notification_id |-> NULL])

db_reEnableTask(t, id, originalTaskId) ==
    LET originalTask == t[originalTaskId]
    IN  Insert(t, [id |-> id, title |-> originalTask.title,
                   description |-> OrEmpty(originalTask.description),
                   created_at |-> now, deadline |-> now + 6 * 60, status |-> "active",
                   completed_at |-> NULL,
                   reactivation_count |-> originalTask.reactivation_count + 1,
                   original_task_id |-> originalTaskId,
                   reminder_notification_id |-> NULL, deadline_notification_id |-> NULL])

-----------------------------------------------------------------------------
(* notificationService.ts.  A token is the identifier the OS returns; the   *)
(* model names it after the task and the kind, which keeps tokens unique    *)
(* because each task is scheduled for once.                                 *)

DeadlineToken(taskId) == 2 * taskId
ReminderToken(taskId) == 2 * taskId + 1

\* settings?.buffer_minutes || TIMINGS.BUFFER_MINUTES, then deadline + buffer
deadlineNotificationTime(deadline) ==
    LET bufferMinutes == IF settings.buffer_minutes # 0 THEN settings.buffer_minutes
                         ELSE BUFFER_MINUTES
    IN  deadline + bufferMinutes

(* The native scheduling call takes effect when it is issued and returns    *)
(* the token; when it throws, nothing is scheduled and the catch block      *)
(* returns null.  throws: the native call issued here throws.               *)
scheduleTaskDeadlineNotification(sch, taskId, deadline, throws) ==
    IF throws THEN [scheduled |-> sch, token |-> NULL]
    ELSE [scheduled |-> sch \cup {[token |-> DeadlineToken(taskId),
                                   at |-> deadlineNotificationTime(deadline)]},
          token |-> DeadlineToken(taskId)]

\* the reminder is not scheduled when its time is in the past
reminderInPast(deadline, reminderMinutesBefore) == deadline - reminderMinutesBefore < now

scheduleTaskReminderNotification(sch, taskId, deadline, reminderMinutesBefore, throws) ==
    IF reminderInPast(deadline, reminderMinutesBefore) \/ throws
    THEN [scheduled |-> sch, token |-> NULL]
    ELSE [scheduled |-> sch \cup {[token |-> ReminderToken(taskId),
                                   at |-> deadline - reminderMinutesBefore]},
          token |-> ReminderToken(taskId)]

\* Notifications.cancelScheduledNotificationAsync takes effect when it is issued
cancelScheduledNotificationAsync(sch, notificationId) ==
    {n \in sch : n.token # notificationId}

(* cancelTaskNotifications makes one native call for the reminder and then  *)
(* one for the deadline notification, and awaits each of them: the caller   *)
(* is suspended once per token.  A call that throws lands in the catch      *)
(* block, which swallows the error and skips the call still to come.        *)
FirstCancel(reminderNotificationId, deadlineNotificationId) ==
    IF reminderNotificationId # NULL THEN reminderNotificationId
    ELSE deadlineNotificationId

\* the token of the native call that follows the first one, NULL when there is none
SecondCancel(reminderNotificationId, deadlineNotificationId) ==
    IF reminderNotificationId # NULL THEN deadlineNotificationId ELSE NULL

\* the error is rethrown instead of swallowed
cancelTaskNotificationsCallMutRethrow(sch, notificationId, next, throws) ==
    IF throws THEN [scheduled |-> sch, pc |-> "rethrown", dl |-> NULL]
    ELSE [scheduled |-> cancelScheduledNotificationAsync(sch, notificationId),
          pc |-> "cancelled", dl |-> next]

(* One native call of cancelTaskNotifications, up to its await: the call    *)
(* cancels notificationId or throws; dl is the token still to be cancelled  *)
(* once the await has returned.                                             *)
cancelTaskNotificationsCall(sch, notificationId, next, throws) ==
    IF throws THEN [scheduled |-> sch, pc |-> "cancelFailed", dl |-> NULL]
    ELSE [scheduled |-> cancelScheduledNotificationAsync(sch, notificationId),
          pc |-> "cancelled", dl |-> next]

\* the call waits for the second native call of cancelTaskNotifications
SecondCancelDue(c) == c.pc = "cancelled" /\ c.dl # NULL

\* cancelTaskNotifications reaches a native call
HasTokens(task) ==
    task.reminder_notification_id # NULL \/ task.deadline_notification_id # NULL

(* cancelTaskNotifications up to the point where its caller is suspended.   *)
(* With a token the first native call is issued.  Without any token no call *)
(* is made, and the caller's await still gives way to the microtask queue:  *)
(* the caller goes on in a later step (pc "microtask").                     *)
cancelTaskNotifications(sch, reminderNotificationId, deadlineNotificationId, throws) ==
    IF reminderNotificationId = NULL /\ deadlineNotificationId = NULL
    THEN [scheduled |-> sch, pc |-> "microtask", dl |-> NULL]
    ELSE cancelTaskNotificationsCall(sch,
             FirstCancel(reminderNotificationId, deadlineNotificationId),
             SecondCancel(reminderNotificationId, deadlineNotificationId), throws)

-----------------------------------------------------------------------------
(* taskStore.ts *)

\* the number of a call that starts now: the least one no suspended call holds
FreeCall ==
    CHOOSE k \in 1..(Cardinality(pending) + 1) :
        /\ \A c \in pending : c.call # k
        /\ \A j \in 1..(k - 1) : \E c \in pending : c.call = j

(* A suspended call.  call tells the calls of the store apart, so that two  *)
(* calls suspended at the same await with the same arguments are two        *)
(* records; dl and rem hold the tokens the call has in hand.                *)
Call(op, pc, id, deadline, dl, rest) ==
    [call |-> FreeCall, op |-> op, pc |-> pc, id |-> id, deadline |-> deadline,
     dl |-> dl, rem |-> NULL, rest |-> rest]

Outcome(op, id, outcome) == [op |-> op, outcome |-> outcome, count |-> 0]

loadActiveTasks(t) == db_getActiveTasks(t)
loadArchivedTasks(t) == db_getArchivedTasks(t)

canCreateTask == Len(activeTasks) < MAX_TASKS

CanSuspend == Cardinality(pending) < MaxPending

\* every step that is not part of a sweep ends the "two sweeps in a row" history
NoSweep == hist' = "none"

(* createTask, up to the first await: capacity check, deadline, INSERT, and *)
(* the call that schedules the deadline notification.                       *)
CreateTaskStartSchedule(task, customDeadline, cap, throws) ==
    /\ UNCHANGED <<now, settings, periodVars>>
    /\ NoSweep
    /\ IF ~canCreateTask
       THEN /\ ~throws
            /\ result' = Outcome("createTask", NULL, "CapacityExceeded")
            /\ UNCHANGED taskVars
       ELSE LET deadline == IF customDeadline # NULL THEN customDeadline
                            ELSE calculateDeadline
            IN  IF deadline = NULL
                THEN /\ ~throws
                     /\ result' = Outcome("createTask", NULL, "WindowClosed")
                     /\ UNCHANGED taskVars
                ELSE LET r == scheduleTaskDeadlineNotification(scheduled, nextId,
                                                              deadline, throws)
                     IN  /\ nextId <= cap
                         /\ CanSuspend
                         /\ tasks' = db_createTask(tasks, nextId, task, deadline)
                         /\ nextId' = nextId + 1
                         /\ scheduled' = r.scheduled
                         /\ pending' = pending \cup
                                {Call("createTask", "deadlineScheduled", nextId, deadline,
                                      r.token, <<>>)}
                         /\ UNCHANGED <<activeTasks, archivedTasks, result>>

CreateTaskStart(task, customDeadline, cap) ==
    CreateTaskStartSchedule(task, customDeadline, cap, FALSE)

\* the tail of createTask / reEnableTask: store the tokens, reload the caches
FinishCreate(c, rem, dl) ==
    /\ tasks' = db_updateNotificationIds(tasks, c.id, rem, dl)
    /\ activeTasks' = loadActiveTasks(tasks')
    /\ archivedTasks' = IF c.op = "reEnableTask" THEN loadArchivedTasks(tasks')
                        ELSE archivedTasks
    /\ pending' = pending \ {c}
    /\ result' = Outcome(c.op, c.id, "ok")

(* The await of the deadline call returns its token or null: call          *)
(* scheduleTaskReminderNotification.  When the reminder time is past it     *)
(* returns null without a native call; the await of createTask gives way to *)
(* the microtask queue all the same, and the tail runs in a later step.     *)
(* throws: the native reminder call issued here throws.                     *)
CreateResumeDeadlineSchedule(c, throws) ==
    /\ c \in pending /\ c.op \in {"createTask", "reEnableTask"} /\ c.pc = "deadlineScheduled"
    /\ UNCHANGED <<now, settings, periodVars, nextId>>
    /\ NoSweep
    /\ throws => ~reminderInPast(c.deadline, 60)
    /\ LET r == scheduleTaskReminderNotification(scheduled, c.id, c.deadline, 60, throws)
       IN  /\ scheduled' = r.scheduled
           /\ pending' = (pending \ {c}) \cup
                  {[c EXCEPT !.pc = IF reminderInPast(c.deadline, 60) THEN "microtask"
                                    ELSE "reminderScheduled",
                             !.rem = r.token]}
           /\ UNCHANGED <<tasks, activeTasks, archivedTasks, result>>

CreateResumeDeadline(c) == CreateResumeDeadlineSchedule(c, FALSE)

\* the await of the reminder call returns its token or null
CreateResumeReminder(c) ==
    /\ c \in pending /\ c.op \in {"createTask", "reEnableTask"}
    /\ c.pc \in {"reminderScheduled", "microtask"}
    /\ UNCHANGED <<now, settings, periodVars, nextId, scheduled>>
    /\ NoSweep
    /\ FinishCreate(c, c.rem, c.dl)

\* updateTask has no await: one step
UpdateTask(taskId, updates) ==
    /\ UNCHANGED <<now, settings, periodVars, nextId, scheduled, pending>>
    /\ NoSweep
    /\ IF taskId \notin DOMAIN tasks
       THEN /\ result' = Outcome("updateTask", taskId, "NotFound")
            /\ UNCHANGED <<tasks, activeTasks, archivedTasks>>
       ELSE /\ tasks' = db_updateTask(tasks, taskId, updates)
            /\ activeTasks' = loadActiveTasks(tasks')
            /\ archivedTasks' = loadArchivedTasks(tasks')
            /\ result' = Outcome("updateTask", taskId, "ok")

\* the tail of deleteTask
FinishDelete(taskId) ==
    /\ tasks' = db_deleteTask(tasks, taskId)
    /\ activeTasks' = loadActiveTasks(tasks')
    /\ archivedTasks' = loadArchivedTasks(tasks')
    /\ result' = Outcome("deleteTask", taskId, "ok")

\* deleteTask up to its await, with the native cancel call that throws, if any
DeleteTaskStartCancel(taskId, throws) ==
    /\ UNCHANGED <<now, settings, periodVars, nextId>>
    /\ NoSweep
    /\ IF taskId \in DOMAIN tasks
       THEN LET task == tasks[taskId]
                r == cancelTaskNotifications(scheduled, task.reminder_notification_id,
                                             task.deadline_notification_id, throws)
            IN  /\ throws => HasTokens(task)
                /\ CanSuspend
                /\ scheduled' = r.scheduled
                /\ pending' = pending \cup {Call("deleteTask", r.pc, taskId, NULL, r.dl, <<>>)}
                /\ UNCHANGED <<tasks, activeTasks, archivedTasks, result>>
       ELSE /\ ~throws
            /\ FinishDelete(taskId)
            /\ UNCHANGED <<scheduled, pending>>

DeleteTaskStart(taskId) == DeleteTaskStartCancel(taskId, FALSE)

(* An await of deleteTask returns.  After the first native call the second  *)
(* one is issued and the call is suspended again; after the last one the    *)
(* row is deleted.  A rejected await lands in the catch block: console.error,*)
(* throw.                                                                   *)
DeleteTaskResumeCancel(c, throws) ==
    /\ c \in pending /\ c.op = "deleteTask"
    /\ UNCHANGED <<now, settings, periodVars, nextId>>
    /\ NoSweep
    /\ IF SecondCancelDue(c)
       THEN LET r == cancelTaskNotificationsCall(scheduled, c.dl, NULL, throws)
            IN  /\ scheduled' = r.scheduled
                /\ pending' = (pending \ {c}) \cup {[c EXCEPT !.pc = r.pc, !.dl = r.dl]}
                /\ UNCHANGED <<tasks, activeTasks, archivedTasks, result>>
       ELSE /\ ~throws
            /\ pending' = pending \ {c}
            /\ UNCHANGED scheduled
            /\ IF c.pc = "rethrown"
               THEN /\ result' = Outcome("deleteTask", c.id, "Failed")
                    /\ UNCHANGED <<tasks, activeTasks, archivedTasks>>
               ELSE FinishDelete(c.id)

DeleteTaskResume(c) == DeleteTaskResumeCancel(c, FALSE)

\* the tail of completeTask
FinishComplete(taskId) ==
    /\ tasks' = db_completeTask(tasks, taskId)
    /\ activeTasks' = loadActiveTasks(tasks')
    /\ archivedTasks' = loadArchivedTasks(tasks')
    /\ result' = Outcome("completeTask", taskId, "ok")

\* completeTask up to its first await; throws: the native cancel call issued here throws
CompleteTaskStartCancel(taskId, throws) ==
    /\ UNCHANGED <<now, settings, periodVars, nextId>>
    /\ NoSweep
    /\ IF taskId \notin DOMAIN tasks
       THEN /\ ~throws
            /\ result' = Outcome("completeTask", taskId, "NotFound")
            /\ UNCHANGED taskVars
       ELSE LET task == tasks[taskId]
            IN  IF task.status = "expired_unfinished" \/ hasExpired(task.deadline)
                THEN /\ ~throws
                     /\ result' = Outcome("completeTask", taskId, "AlreadyExpired")
                     /\ UNCHANGED taskVars
                ELSE LET r == cancelTaskNotifications(scheduled,
                                  task.reminder_notification_id,
                                  task.deadline_notification_id, throws)
                     IN  /\ throws => HasTokens(task)
                         /\ CanSuspend
                         /\ scheduled' = r.scheduled
                         /\ pending' = pending \cup
                                {Call("completeTask", r.pc, taskId, NULL, r.dl, <<>>)}
                         /\ UNCHANGED <<tasks, nextId, activeTasks, archivedTasks,
                                        result>>

CompleteTaskStart(taskId) == CompleteTaskStartCancel(taskId, FALSE)

(* An await of completeTask returns.  After the first native call the       *)
(* second one is issued and the call is suspended again; after the last one *)
(* the row is completed.  A rejected await lands in the catch block:        *)
(* console.error, throw.                                                    *)
CompleteTaskResumeCancel(c, throws) ==
    /\ c \in pending /\ c.op = "completeTask"
    /\ UNCHANGED <<now, settings, periodVars, nextId>>
    /\ NoSweep
    /\ IF SecondCancelDue(c)
       THEN LET r == cancelTaskNotificationsCall(scheduled, c.dl, NULL, throws)
            IN  /\ scheduled' = r.scheduled
                /\ pending' = (pending \ {c}) \cup {[c EXCEPT !.pc = r.pc, !.dl = r.dl]}
                /\ UNCHANGED <<tasks, activeTasks, archivedTasks, result>>
       ELSE /\ ~throws
            /\ pending' = pending \ {c}
            /\ UNCHANGED scheduled
            /\ IF c.pc = "rethrown"
               THEN /\ result' = Outcome("completeTask", c.id, "Failed")
                    /\ UNCHANGED <<tasks, activeTasks, archivedTasks>>
               ELSE FinishComplete(c.id)

CompleteTaskResume(c) == CompleteTaskResumeCancel(c, FALSE)

ReEnableTaskStartSchedule(taskId, cap, throws) ==
    /\ UNCHANGED <<now, settings, periodVars>>
    /\ NoSweep
    /\ IF ~canCreateTask
       THEN /\ ~throws
            /\ result' = Outcome("reEnableTask", taskId, "CapacityExceeded")
            /\ UNCHANGED taskVars
       ELSE IF taskId \notin DOMAIN tasks
            THEN /\ ~throws
                 /\ result' = Outcome("reEnableTask", taskId, "NotFound")
                 /\ UNCHANGED taskVars
            ELSE /\ nextId <= cap
                 /\ CanSuspend
                 /\ tasks' = db_reEnableTask(tasks, nextId, taskId)
                 /\ nextId' = nextId + 1
                 /\ LET r == scheduleTaskDeadlineNotification(scheduled, nextId,
                                  tasks'[nextId].deadline, throws)
                    IN  /\ scheduled' = r.scheduled
                        /\ pending' = pending \cup
                               {Call("reEnableTask", "deadlineScheduled", nextId,
                                     tasks'[nextId].deadline, r.token, <<>>)}
                 /\ UNCHANGED <<activeTasks, archivedTasks, result>>

ReEnableTaskStart(taskId, cap) == ReEnableTaskStartSchedule(taskId, cap, FALSE)

(* checkExpiredTasks.  The loop runs without interruption until it reaches a *)
(* task that has expired: there it awaits cancelTaskNotifications and the   *)
(* sweep is suspended with that task at the head of rest, whether the task  *)
(* holds a token or not.  The task is expired when the sweep goes on.       *)
RECURSIVE SweepRun(_, _)
SweepRun(t, rest) ==
    IF rest = <<>> THEN [tasks |-> t, rest |-> <<>>]
    ELSE LET task == Head(rest)
         IN  IF hasExpired(task.deadline)
             THEN [tasks |-> t, rest |-> rest]
             ELSE SweepRun(t, Tail(rest))

OtherSweeps(c) == {d \in pending \ {c} : d.op = "checkExpiredTasks"}

\* hist after a sweep step of call c (finished: the run has reached its end)
SweepHist(c, finished) ==
    IF OtherSweeps(c) # {} THEN "none"
    ELSE IF finished THEN "swept"
    ELSE IF hist \in {"swept", "second"} THEN "second"
    ELSE "none"

\* throws: the native cancel call that the step reaches, if any, throws
SweepStepCancel(c, r, throws) ==
    /\ tasks' = r.tasks
    /\ hist' = SweepHist(c, r.rest = <<>>)
    /\ IF r.rest = <<>>
       THEN /\ ~throws
            /\ activeTasks' = loadActiveTasks(tasks')
            /\ archivedTasks' = loadArchivedTasks(tasks')
            /\ pending' = pending \ {c}
            /\ result' = Outcome("checkExpiredTasks", NULL, "ok")
            /\ UNCHANGED scheduled
       ELSE LET task == Head(r.rest)
                o == cancelTaskNotifications(scheduled, task.reminder_notification_id,
                                             task.deadline_notification_id, throws)
            IN  /\ throws => HasTokens(task)
                /\ scheduled' = o.scheduled
                /\ pending' = (pending \ {c}) \cup
                       {[Call("checkExpiredTasks", o.pc, NULL, NULL, o.dl, r.rest)
                             EXCEPT !.call = c.call]}
                /\ UNCHANGED <<activeTasks, archivedTasks, result>>

SweepStep(c, r) == SweepStepCancel(c, r, FALSE)

NoCall == Call("none", "none", NULL, NULL, NULL, <<>>)

CheckExpiredTasksStartCancel(throws) ==
    /\ UNCHANGED <<now, settings, periodVars, nextId>>
    /\ LET r == SweepRun(tasks, activeTasks)
       IN  /\ r.rest # <<>> => CanSuspend
           /\ SweepStepCancel(NoCall, r, throws)

CheckExpiredTasksStart == CheckExpiredTasksStartCancel(FALSE)

(* An await of checkExpiredTasks returns.  After the first native call of a *)
(* task the second one is issued; after the last one the task is expired and *)
(* the loop runs on.  checkExpiredTasks has no catch block: a rejected await *)
(* ends the sweep there.                                                    *)
CheckExpiredTasksResumeCancel(c, throws) ==
    /\ c \in pending /\ c.op = "checkExpiredTasks"
    /\ UNCHANGED <<now, settings, periodVars, nextId>>
    /\ IF c.pc = "rethrown"
       THEN /\ ~throws
            /\ pending' = pending \ {c}
            /\ result' = Outcome("checkExpiredTasks", NULL, "Failed")
            /\ hist' = "none"
            /\ UNCHANGED <<tasks, activeTasks, archivedTasks, scheduled>>
       ELSE IF SecondCancelDue(c)
       THEN LET o == cancelTaskNotificationsCall(scheduled, c.dl, NULL, throws)
            IN  /\ scheduled' = o.scheduled
                /\ pending' = (pending \ {c}) \cup {[c EXCEPT !.pc = o.pc, !.dl = o.dl]}
                /\ hist' = SweepHist(c, FALSE)
                /\ UNCHANGED <<tasks, activeTasks, archivedTasks, result>>
       ELSE SweepStepCancel(c, SweepRun(db_expireTask(tasks, Head(c.rest).id),
                                       Tail(c.rest)), throws)

CheckExpiredTasksResume(c) == CheckExpiredTasksResumeCancel(c, FALSE)

-----------------------------------------------------------------------------
(* expirationService.ts *)

RECURSIVE ExpireAll(_, _)
ExpireAll(t, rest) ==
    IF rest = <<>> THEN [tasks |-> t, expiredCount |-> 0]
    ELSE LET task == Head(rest)
         IN  IF hasExpired(task.deadline)
             THEN LET r == ExpireAll(db_expireTask(t, task.id), Tail(rest))
                  IN  [tasks |-> r.tasks, expiredCount |-> r.expiredCount + 1]
             ELSE ExpireAll(t, Tail(rest))

\* the interval callback of setupAutoExpiration: synchronous, and it refreshes no cache
CheckAndExpireTasks ==
    /\ UNCHANGED <<now, settings, periodVars, nextId, activeTasks, archivedTasks,
                   scheduled, pending>>
    /\ LET r == ExpireAll(tasks, db_getActiveTasks(tasks))
       IN  /\ tasks' = r.tasks
           /\ result' = [Outcome("checkAndExpireTasks", NULL, "ok") EXCEPT
                            !.count = r.expiredCount]
    /\ hist' = SweepHist(NoCall, TRUE)

-----------------------------------------------------------------------------
(* The screens and the process *)

\* TodayScreen's alert handler and App.handleCloseEdit
LoadActiveTasks ==
    /\ activeTasks' = loadActiveTasks(tasks)
    /\ NoSweep
    /\ UNCHANGED <<now, tasks, nextId, archivedTasks, settings, periodVars, scheduled,
                   pending, result>>

\* ArchiveScreen's mount effect
LoadArchivedTasks ==
    /\ archivedTasks' = loadArchivedTasks(tasks)
    /\ NoSweep
    /\ UNCHANGED <<now, tasks, nextId, activeTasks, settings, periodVars, scheduled,
                   pending, result>>

(* settingsStore.updateSettings: the fields given are written to the table *)
(* and the row is read back into the store.                               *)
db_updateSettings(current, updates) ==
    [max_tasks |-> IF updates.max_tasks # NULL THEN updates.max_tasks ELSE current.max_tasks,
     buffer_minutes |-> IF updates.buffer_minutes # NULL THEN updates.buffer_minutes
                        ELSE current.buffer_minutes]

UpdateSettings(updates) ==
    /\ settings' = db_updateSettings(settings, updates)
    /\ NoSweep
    /\ UNCHANGED <<now, taskVars, periodVars, result>>

\* the device clock moves on
Tick(t) ==
    /\ t > now
    /\ now' = t
    /\ NoSweep
    /\ UNCHANGED <<taskVars, settings, periodVars, result>>

-----------------------------------------------------------------------------
(* db.ts: table time_periods, and settingsStore.ts *)

\* the same test with <= in place of <
timePeriodsOverlapMutLe(period1, period2) ==
    LET p1Start == toMinutes(period1.start_hour, period1.start_minute)
        p1End0 == toMinutes(period1.end_hour, period1.end_minute)
        p2Start == toMinutes(period2.start_hour, period2.start_minute)
        p2End0 == toMinutes(period2.end_hour, period2.end_minute)
        p1End == IF p1End0 <= p1Start THEN p1End0 + 24 * 60 ELSE p1End0
        p2End == IF p2End0 <= p2Start THEN p2End0 + 24 * 60 ELSE p2End0
    IN  (p1Start <= p2End) /\ (p2Start <= p1End)

timePeriodsOverlap(period1, period2) ==
    LET p1Start == toMinutes(period1.start_hour, period1.start_minute)
        p1End0 == toMinutes(period1.end_hour, period1.end_minute)
        p2Start == toMinutes(period2.start_hour, period2.start_minute)
        p2End0 == toMinutes(period2.end_hour, period2.end_minute)
        p1End == IF p1End0 <= p1Start THEN p1End0 + 24 * 60 ELSE p1End0
        p2End == IF p2End0 <= p2Start THEN p2End0 + 24 * 60 ELSE p2End0
    IN  (p1Start < p2End) /\ (p2Start < p1End)

StartAsc(x, y) ==
    \/ toMinutes(x.start_hour, x.start_minute) < toMinutes(y.start_hour, y.start_minute)
    \/ /\ toMinutes(x.start_hour, x.start_minute) = toMinutes(y.start_hour, y.start_minute)
       /\ x.id < y.id

RECURSIVE OrderByStart(_)
\* ORDER BY start_hour ASC, start_minute ASC
OrderByStart(S) ==
    IF S = {} THEN <<>>
    ELSE LET m == CHOOSE x \in S : \A y \in S \ {x} : StartAsc(x, y)
         IN  <<m>> \o OrderByStart(S \ {m})

db_getTimePeriods(tp) == OrderByStart({tp[i] : i \in DOMAIN tp})

\* the rows addTimePeriod / updateTimePeriod find overlapping the candidate
Overlapping(tp, ids, period) == {i \in ids : timePeriodsOverlap(period, tp[i])}

PeriodRow(id, period) ==
    [id |-> id, start_hour |-> period.start_hour, start_minute |-> period.start_minute,
     end_hour |-> period.end_hour, end_minute |-> period.end_minute,
     max_duration_hours |-> period.max_duration_hours]

\* settingsStore.addTimePeriod: the table is written and the store reloaded on success only
AddTimePeriod(period) ==
    /\ UNCHANGED <<now, taskVars, settings>>
    /\ NoSweep
    /\ IF Overlapping(time_periods, DOMAIN time_periods, period) # {}
       THEN /\ result' = Outcome("addTimePeriod", NULL, "OverlappingPeriod")
            /\ UNCHANGED periodVars
       ELSE /\ nextPeriodId <= MaxPeriodId
            /\ time_periods' = Insert(time_periods, PeriodRow(nextPeriodId, period))
            /\ nextPeriodId' = nextPeriodId + 1
            /\ timePeriods' = db_getTimePeriods(time_periods')
            /\ result' = Outcome("addTimePeriod", nextPeriodId, "ok")

\* dbOperations.deleteTimePeriod: DELETE FROM time_periods WHERE id = ?
db_deleteTimePeriod(tp, id) == [i \in DOMAIN tp \ {id} |-> tp[i]]

\* settingsStore.deleteTimePeriod: no test of the number of periods
DeleteTimePeriod(id) ==
    /\ UNCHANGED <<now, taskVars, settings, nextPeriodId>>
    /\ NoSweep
    /\ time_periods' = db_deleteTimePeriod(time_periods, id)
    /\ timePeriods' = db_getTimePeriods(time_periods')
    /\ result' = Outcome("deleteTimePeriod", id, "ok")

(* SettingsScreen.handleDeletePeriod: refuses when the store's timePeriods  *)
(* holds one period or none; otherwise it raises the confirmation alert and *)
(* returns.  The alert waits in pending for one of its buttons.             *)
HandleDeletePeriod(id) ==
    /\ UNCHANGED <<now, settings, periodVars, tasks, nextId, activeTasks, archivedTasks,
                   scheduled>>
    /\ NoSweep
    /\ IF Len(timePeriods) <= 1
       THEN /\ result' = Outcome("deleteTimePeriod", id, "LastPeriod")
            /\ UNCHANGED pending
       ELSE /\ CanSuspend
            /\ pending' = pending \cup
                   {Call("handleDeletePeriod", "alert", id, NULL, NULL, <<>>)}
            /\ UNCHANGED result

\* the alert's Delete button: settingsStore.deleteTimePeriod(id), with no second test
ConfirmDeletePeriod(c) ==
    /\ c \in pending /\ c.op = "handleDeletePeriod"
    /\ UNCHANGED <<now, settings, nextPeriodId, tasks, nextId, activeTasks, archivedTasks,
                   scheduled>>
    /\ NoSweep
    /\ pending' = pending \ {c}
    /\ time_periods' = db_deleteTimePeriod(time_periods, c.id)
    /\ timePeriods' = db_getTimePeriods(time_periods')
    /\ result' = Outcome("deleteTimePeriod", c.id, "ok")

\* the alert's Cancel button
CancelDeletePeriod(c) ==
    /\ c \in pending /\ c.op = "handleDeletePeriod"
    /\ UNCHANGED <<now, settings, periodVars, tasks, nextId, activeTasks, archivedTasks,
                   scheduled, result>>
    /\ NoSweep
    /\ pending' = pending \ {c}

\* settingsStore.updateTimePeriod: compared with the rows WHERE id != ?
UpdateTimePeriod(id, period) ==
    /\ UNCHANGED <<now, taskVars, settings, nextPeriodId>>
    /\ NoSweep
    /\ IF Overlapping(time_periods, DOMAIN time_periods \ {id}, period) # {}
       THEN /\ result' = Outcome("updateTimePeriod", id, "OverlappingPeriod")
            /\ UNCHANGED <<time_periods, timePeriods>>
       ELSE /\ time_periods' = [i \in DOMAIN time_periods |->
                                   IF i = id THEN PeriodRow(id, period) ELSE time_periods[i]]
            /\ timePeriods' = db_getTimePeriods(time_periods')
            /\ result' = Outcome("updateTimePeriod", id, "ok")

-----------------------------------------------------------------------------
(* App.tsx *)

(* The process is started again: the stores begin empty and the suspended   *)
(* calls are gone, while the tables and the OS notifications stay.  App's   *)
(* mount effect runs initDatabase, which inserts the default period when    *)
(* time_periods is empty, and loads the settings and the periods;           *)
(* TodayScreen's mount effect then runs checkExpiredTasks over the empty    *)
(* activeTasks, which only reloads the caches.                              *)
AppStart ==
    /\ pending' = {}
    /\ IF DOMAIN time_periods = {}
       THEN /\ nextPeriodId <= MaxPeriodId
            /\ time_periods' = (nextPeriodId :> [DefaultPeriod EXCEPT !.id = nextPeriodId])
            /\ nextPeriodId' = nextPeriodId + 1
       ELSE UNCHANGED <<time_periods, nextPeriodId>>
    /\ timePeriods' = db_getTimePeriods(time_periods')
    /\ activeTasks' = loadActiveTasks(tasks)
    /\ archivedTasks' = loadArchivedTasks(tasks)
    /\ result' = Outcome("checkExpiredTasks", NULL, "ok")
    /\ hist' = "swept"
    /\ UNCHANGED <<now, tasks, nextId, settings, scheduled>>

-----------------------------------------------------------------------------
(* The task lifecycle under the default settings and the default period, *)
(* one call at a time.                                                    *)

\* CreateTaskScreen passes description.trim() || undefined: an empty description
\* arrives as undefined
TaskInputs == {[title |-> "a", description |-> UNDEF]}

\* an edit moves the deadline
Updates == {[title |-> UNDEF, description |-> UNDEF, deadline |-> LateDeadline]}

TaskIds == 1..MaxId

Init ==
    /\ now = StartNow
    /\ tasks = <<>>
    /\ nextId = 1
    /\ activeTasks = <<>>
    /\ archivedTasks = [finished |-> {}, unfinished |-> {}]
    /\ settings = [max_tasks |-> 2, buffer_minutes |-> 30]
    /\ time_periods = (1 :> [DefaultPeriod EXCEPT !.id = 1])
    /\ nextPeriodId = 2
    /\ timePeriods = <<[DefaultPeriod EXCEPT !.id = 1]>>
    /\ scheduled = {}
    /\ pending = {}
    /\ result = Outcome("none", NULL, "ok")
    /\ hist = "none"

\* the calls a user or a timer can start
Start ==
    \/ \E task \in TaskInputs : CreateTaskStart(task, NULL, MaxIdSmall)
    \/ \E id \in TaskIds, u \in Updates : UpdateTask(id, u)
    \/ \E id \in TaskIds : DeleteTaskStart(id)
    \/ \E id \in TaskIds : CompleteTaskStart(id)
    \/ \E id \in TaskIds : ReEnableTaskStart(id, MaxIdSmall)
    \/ CheckExpiredTasksStart
    \/ CheckAndExpireTasks
    \/ LoadActiveTasks
    \/ LoadArchivedTasks
    \/ AppStart
    \/ \E t \in Instants : Tick(t)

\* a suspended call goes on
Resume ==
    \/ \E c \in pending : CreateResumeDeadline(c)
    \/ \E c \in pending : CreateResumeReminder(c)
    \/ \E c \in pending : DeleteTaskResume(c)
    \/ \E c \in pending : CompleteTaskResume(c)
    \/ \E c \in pending : CheckExpiredTasksResume(c)

\* one call at a time: nothing starts while a call is suspended
Next ==
    \/ pending = {} /\ Start
    \/ Resume

Spec == Init /\ [][Next]_vars

-----------------------------------------------------------------------------
(* Completion around the end of the buffer, with the settings edited on the *)
(* way, one call at a time.                                                 *)

\* max_tasks lowered to 1; buffer_minutes set to 0
SettingsChoices == {[max_tasks |-> 1, buffer_minutes |-> NULL],
                    [max_tasks |-> NULL, buffer_minutes |-> 0]}

\* the deadline itself is the last minute of an empty buffer
BufferInstants == Instants \cup {StartNow + 6 * 60}

NextBuffer ==
    \/ pending = {} /\ \E task \in TaskInputs : CreateTaskStart(task, NULL, MaxIdSmall)
    \/ pending = {} /\ \E id \in 1..MaxIdSmall : CompleteTaskStart(id)
    \/ pending = {} /\ CheckAndExpireTasks
    \/ pending = {} /\ \E u \in SettingsChoices : UpdateSettings(u)
    \/ pending = {} /\ \E t \in BufferInstants : Tick(t)
    \/ \E c \in pending : CreateResumeDeadline(c)
    \/ \E c \in pending : CreateResumeReminder(c)
    \/ \E c \in pending : CompleteTaskResume(c)

SpecBuffer == Init /\ [][NextBuffer]_vars

-----------------------------------------------------------------------------
(* Capacity: creation and reactivation with the max_tasks setting edited on *)
(* the way, one call at a time.                                            *)

NextCapacity ==
    \/ pending = {} /\ \E task \in TaskInputs : CreateTaskStart(task, NULL, MaxId)
    \/ pending = {} /\ \E id \in TaskIds : ReEnableTaskStart(id, MaxId)
    \/ pending = {} /\ CheckAndExpireTasks
    \/ pending = {} /\ CheckExpiredTasksStart
    \/ pending = {} /\ \E u \in SettingsChoices : UpdateSettings(u)
    \/ pending = {} /\ \E t \in Instants : Tick(t)
    \/ \E c \in pending : CreateResumeDeadline(c)
    \/ \E c \in pending : CreateResumeReminder(c)
    \/ \E c \in pending : CheckExpiredTasksResume(c)

SpecCapacity == Init /\ [][NextCapacity]_vars

-----------------------------------------------------------------------------
(* Interleavings: a call may start while others are suspended at an await *)

NextAsync ==
    \/ \E task \in TaskInputs : CreateTaskStart(task, NULL, MaxIdSmall)
    \/ \E id \in 1..MaxIdSmall, u \in Updates : UpdateTask(id, u)
    \/ \E id \in 1..MaxIdSmall : CompleteTaskStart(id)
    \/ CheckExpiredTasksStart
    \/ CheckAndExpireTasks
    \/ \E t \in Instants : Tick(t)
    \/ \E c \in pending : CreateResumeDeadline(c)
    \/ \E c \in pending : CreateResumeReminder(c)
    \/ \E c \in pending : CompleteTaskResume(c)
    \/ \E c \in pending : CheckExpiredTasksResume(c)

SpecAsync == Init /\ [][NextAsync]_vars

-----------------------------------------------------------------------------
(* The time periods of SettingsScreen, edited from the default period *)

Period(sh, sm, eh, em, d) ==
    [start_hour |-> sh, start_minute |-> sm, end_hour |-> eh, end_minute |-> em,
     max_duration_hours |-> d]

Morning == Period(5, 0, 12, 0, 6)
Midday == Period(11, 30, 20, 0, 6)
Afternoon == Period(12, 0, 20, 0, 6)
Night == Period(20, 0, 6, 0, 4)

PeriodChoices == {Morning, Midday, Afternoon, Night, Period(5, 0, 21, 0, 6)}

PeriodIds == 1..MaxPeriodId

NextPeriods ==
    \/ \E p \in PeriodChoices : AddTimePeriod(p)
    \/ \E id \in PeriodIds, p \in PeriodChoices : UpdateTimePeriod(id, p)
    \/ \E id \in PeriodIds : DeleteTimePeriod(id)

SpecPeriods == Init /\ [][NextPeriods]_vars

(* The same operations as SettingsScreen issues them: a delete is asked for *)
(* with handleDeletePeriod and carried out when its alert is confirmed; the *)
(* app may be started again in between.                                     *)
NextSettingsScreen ==
    \/ \E p \in PeriodChoices : AddTimePeriod(p)
    \/ \E id \in PeriodIds, p \in PeriodChoices : UpdateTimePeriod(id, p)
    \/ \E id \in PeriodIds : HandleDeletePeriod(id)
    \/ \E c \in pending : ConfirmDeletePeriod(c)
    \/ \E c \in pending : CancelDeletePeriod(c)
    \/ AppStart

SpecSettingsScreen == Init /\ [][NextSettingsScreen]_vars

-----------------------------------------------------------------------------
(* The creation window: deadlines computed and validated at several times of *)
(* day, with the periods edited on the way.                                  *)

\* DeadlinePicker's effect: validateCustomDeadline(selectedDeadline)
ValidateCustomDeadline(deadline) ==
    /\ result' = Outcome("validateCustomDeadline", NULL, validateCustomDeadline(deadline))
    /\ NoSweep
    /\ UNCHANGED <<now, taskVars, settings, periodVars>>

\* 10:00, 18:00, 22:00 of day 0 and 03:00 of day 1
WindowInstants == {StartNow, StartNow + 8 * 60, StartNow + 12 * 60, StartNow + 17 * 60}

\* deadlines a user can pick: around now, around the 4 and 6 hour limits, and 03:00 of day 1
CustomDeadlines ==
    {now - 1, now, now + 1, now + 4 * 60, now + 4 * 60 + 1, now + 6 * 60, now + 6 * 60 + 1,
     StartNow + 17 * 60}

NextWindow ==
    \/ pending = {} /\ \E d \in CustomDeadlines : ValidateCustomDeadline(d)
    \/ pending = {} /\ \E task \in TaskInputs : CreateTaskStart(task, NULL, MaxIdSmall)
    \/ pending = {} /\ \E p \in PeriodChoices : AddTimePeriod(p)
    \/ pending = {} /\ \E id \in PeriodIds, p \in PeriodChoices : UpdateTimePeriod(id, p)
    \/ pending = {} /\ \E t \in WindowInstants : Tick(t)
    \/ \E c \in pending : CreateResumeDeadline(c)
    \/ \E c \in pending : CreateResumeReminder(c)

SpecWindow == Init /\ [][NextWindow]_vars

-----------------------------------------------------------------------------
(* The live process: the interval timer of setupAutoExpiration fires again *)
(* and again and the clock moves on, whatever the user does in between.    *)

\* the instants of the lifecycle and one after the buffer of an edited deadline
LiveInstants == Instants \cup {LateDeadline + BUFFER_MINUTES + 1}

\* the first minute after the buffer of an active task
PastBuffer(id) ==
    /\ id \in DOMAIN tasks
    /\ tasks[id].status = "active"
    /\ now > tasks[id].deadline + settings.buffer_minutes

TickLive == \E t \in LiveInstants : Tick(t)

NextLive ==
    \/ CheckAndExpireTasks
    \/ TickLive
    \/ pending = {} /\ \E task \in TaskInputs : CreateTaskStart(task, NULL, MaxIdSmall)
    \/ pending = {} /\ \E id \in 1..MaxIdSmall, u \in Updates : UpdateTask(id, u)
    \/ pending = {} /\ \E id \in 1..MaxIdSmall : DeleteTaskStart(id)
    \/ pending = {} /\ \E id \in 1..MaxIdSmall : CompleteTaskStart(id)
    \/ pending = {} /\ CheckExpiredTasksStart
    \/ Resume

SpecLive ==
    /\ Init
    /\ [][NextLive]_vars
    /\ WF_vars(CheckAndExpireTasks)
    /\ WF_vars(TickLive)

-----------------------------------------------------------------------------
(* Notifications: tasks leave the active state in every way the program has, *)
(* with buffer_minutes edited on the way, one call at a time.                *)

\* the instants of the lifecycle and the first minute after a deadline
NotifyInstants == Instants \cup {StartNow + 6 * 60 + 1}

\* a notification is still scheduled while its time has not come
StillScheduled(token) == \E n \in scheduled : n.token = token /\ n.at > now

NextNotify ==
    \/ pending = {} /\ \E task \in TaskInputs : CreateTaskStart(task, NULL, MaxIdSmall)
    \/ pending = {} /\ \E id \in 1..MaxIdSmall : CompleteTaskStart(id)
    \/ pending = {} /\ \E id \in 1..MaxIdSmall : DeleteTaskStart(id)
    \/ pending = {} /\ CheckExpiredTasksStart
    \/ pending = {} /\ CheckAndExpireTasks
    \/ pending = {} /\ \E u \in SettingsChoices : UpdateSettings(u)
    \/ pending = {} /\ \E t \in NotifyInstants : Tick(t)
    \/ Resume

SpecNotify == Init /\ [][NextNotify]_vars

-----------------------------------------------------------------------------
(* Custom deadlines: CreateTaskScreen keeps the deadline that DeadlinePicker *)
(* accepted when it was picked and passes it to createTask at Save.          *)

\* deadlines picked at StartNow, both valid then: one hour and six hours ahead
PickedDeadlines == {StartNow + 60, StartNow + 6 * 60}

\* any native scheduling call may throw
NextCustom ==
    \/ pending = {} /\ \E task \in TaskInputs, d \in PickedDeadlines \cup {NULL},
                           throws \in BOOLEAN :
                          CreateTaskStartSchedule(task, d, MaxIdSmall, throws)
    \/ pending = {} /\ \E id \in 1..MaxIdSmall, u \in Updates : UpdateTask(id, u)
    \/ pending = {} /\ \E id \in 1..MaxIdSmall, throws \in BOOLEAN :
                          ReEnableTaskStartSchedule(id, MaxIdSmall, throws)
    \/ pending = {} /\ CheckAndExpireTasks
    \/ pending = {} /\ LoadActiveTasks
    \/ pending = {} /\ \E t \in Instants : Tick(t)
    \/ \E c \in pending, throws \in BOOLEAN : CreateResumeDeadlineSchedule(c, throws)
    \/ \E c \in pending : CreateResumeReminder(c)

SpecCustom == Init /\ [][NextCustom]_vars

-----------------------------------------------------------------------------
(* Statistics.  created_at and the bounds of the range are the strings      *)
(* Date.toISOString() produces, which SQLite compares as text: a string is  *)
(* modelled by its fields <<day, hour, minute>>, compared left to right.    *)

toISOString(t) == <<t \div DayMinutes, (t % DayMinutes) \div 60, t % 60>>

TextLt(a, b) ==
    \E i \in 1..Len(a) : (\A j \in 1..(i - 1) : a[j] = b[j]) /\ a[i] < b[i]

TextLeq(a, b) == a = b \/ TextLt(a, b)

\* x BETWEEN lo AND hi
BETWEEN(x, lo, hi) == TextLeq(lo, x) /\ TextLeq(x, hi)

\* SUM(reactivation_count) over a set of rows that is not empty
RECURSIVE SumReactivationCount(_)
SumReactivationCount(S) ==
    IF S = {} THEN 0
    ELSE LET r == CHOOSE x \in S : TRUE
         IN  r.reactivation_count + SumReactivationCount(S \ {r})

\* the bounds of the range are left out
getStatsMutExclusive(t, startDate, endDate) ==
    LET inRange == {r \in Rows(t) : /\ TextLt(startDate, toISOString(r.created_at))
                                    /\ TextLt(toISOString(r.created_at), endDate)}
        total == IF inRange = {} THEN NULL ELSE SumReactivationCount(inRange)
    IN  [finished |-> Cardinality({r \in inRange : r.status = "completed"}),
         unfinished |-> Cardinality({r \in inRange : r.status = "expired_unfinished"}),
         totalAttempts |-> IF total \in {NULL, 0} THEN 0 ELSE total]

\* SUM over no row is NULL, and "total || 0" turns it into 0
getStats(t, startDate, endDate) ==
    LET inRange == {r \in Rows(t) : BETWEEN(toISOString(r.created_at), startDate, endDate)}
        total == IF inRange = {} THEN NULL ELSE SumReactivationCount(inRange)
    IN  [finished |-> Cardinality({r \in inRange : r.status = "completed"}),
         unfinished |-> Cardinality({r \in inRange : r.status = "expired_unfinished"}),
         totalAttempts |-> IF total \in {NULL, 0} THEN 0 ELSE total]

\* taskStore.getStats, called with two instants turned into strings
GetStats(start, end) ==
    /\ result' = [op |-> "getStats", outcome |-> "ok", count |-> 0,
                  stats |-> getStats(tasks, toISOString(start), toISOString(end))]
    /\ NoSweep
    /\ UNCHANGED <<now, taskVars, settings, periodVars>>

MaxIdStats == 3

\* the time from a creation to the first minute after the buffer
ExpiryStep == 6 * 60 + BUFFER_MINUTES + 1

StatsInstants == {StartNow + k * ExpiryStep : k \in 0..2}

NextStats ==
    \/ pending = {} /\ \E task \in TaskInputs : CreateTaskStart(task, NULL, MaxIdStats)
    \/ pending = {} /\ \E id \in 1..MaxIdStats : CompleteTaskStart(id)
    \/ pending = {} /\ \E id \in 1..MaxIdStats : ReEnableTaskStart(id, MaxIdStats)
    \/ pending = {} /\ CheckAndExpireTasks
    \/ pending = {} /\ \E t \in StatsInstants : Tick(t)
    \/ pending = {} /\ \E start, end \in StatsInstants : GetStats(start, end)
    \/ \E c \in pending : CreateResumeDeadline(c)
    \/ \E c \in pending : CreateResumeReminder(c)
    \/ \E c \in pending : CompleteTaskResume(c)

SpecStats == Init /\ [][NextStats]_vars

-----------------------------------------------------------------------------
(* Reactivation with the duration of the configured period edited.          *)

\* the default hours, with a maximum duration of four or of six hours
DurationChoices == {Period(5, 0, 21, 0, 4), Period(5, 0, 21, 0, 6)}

NextReEnable ==
    \/ pending = {} /\ \E p \in DurationChoices : UpdateTimePeriod(1, p)
    \/ pending = {} /\ \E task \in TaskInputs : CreateTaskStart(task, NULL, MaxIdSmall)
    \/ pending = {} /\ \E id \in 1..MaxIdSmall : ReEnableTaskStart(id, MaxIdSmall)
    \/ pending = {} /\ CheckAndExpireTasks
    \/ pending = {} /\ \E t \in Instants : Tick(t)
    \/ \E c \in pending : CreateResumeDeadline(c)
    \/ \E c \in pending : CreateResumeReminder(c)

SpecReEnable == Init /\ [][NextReEnable]_vars

-----------------------------------------------------------------------------
(* The notification collaborator fails: any native cancel call may throw.   *)

NextCancelFails ==
    \/ pending = {} /\ \E task \in TaskInputs : CreateTaskStart(task, NULL, MaxIdSmall)
    \/ pending = {} /\ \E id \in 1..MaxIdSmall, throws \in BOOLEAN :
                          CompleteTaskStartCancel(id, throws)
    \/ pending = {} /\ \E id \in 1..MaxIdSmall, throws \in BOOLEAN :
                          DeleteTaskStartCancel(id, throws)
    \/ pending = {} /\ \E throws \in BOOLEAN : CheckExpiredTasksStartCancel(throws)
    \/ pending = {} /\ \E t \in Instants : Tick(t)
    \/ \E c \in pending : CreateResumeDeadline(c)
    \/ \E c \in pending : CreateResumeReminder(c)
    \/ \E c \in pending, throws \in BOOLEAN : CompleteTaskResumeCancel(c, throws)
    \/ \E c \in pending, throws \in BOOLEAN : DeleteTaskResumeCancel(c, throws)
    \/ \E c \in pending, throws \in BOOLEAN : CheckExpiredTasksResumeCancel(c, throws)

SpecCancelFails == Init /\ [][NextCancelFails]_vars

-----------------------------------------------------------------------------
(* Creation and reactivation started while another such call is suspended   *)
(* at one of its scheduling awaits; the settings are never edited.          *)

NextConcurrent ==
    \/ \E task \in TaskInputs : CreateTaskStart(task, NULL, MaxId)
    \/ \E id \in TaskIds : ReEnableTaskStart(id, MaxId)
    \/ pending = {} /\ \E id \in TaskIds : CompleteTaskStart(id)
    \/ pending = {} /\ CheckExpiredTasksStart
    \/ pending = {} /\ \E t \in Instants : Tick(t)
    \/ \E c \in pending : CreateResumeDeadline(c)
    \/ \E c \in pending : CreateResumeReminder(c)
    \/ \E c \in pending : CompleteTaskResume(c)
    \/ \E c \in pending : CheckExpiredTasksResume(c)

SpecConcurrent == Init /\ [][NextConcurrent]_vars

-----------------------------------------------------------------------------
(* completeTask and deleteTask called for a task whose createTask or        *)
(* reEnableTask is still suspended at a scheduling await.                   *)

NextEarly ==
    \/ pending = {} /\ \E task \in TaskInputs : CreateTaskStart(task, NULL, MaxIdSmall)
    \/ pending = {} /\ \E id \in 1..MaxIdSmall : ReEnableTaskStart(id, MaxIdSmall)
    \/ \E id \in 1..MaxIdSmall : CompleteTaskStart(id)
    \/ \E id \in 1..MaxIdSmall : DeleteTaskStart(id)
    \/ pending = {} /\ \E t \in Instants : Tick(t)
    \/ \E c \in pending : CreateResumeDeadline(c)
    \/ \E c \in pending : CreateResumeReminder(c)
    \/ \E c \in pending : CompleteTaskResume(c)
    \/ \E c \in pending : DeleteTaskResume(c)

SpecEarly == Init /\ [][NextEarly]_vars

-----------------------------------------------------------------------------
(* Exported operations that no screen and no store calls:                   *)
(* dbOperations.deleteAllTasks, cancelNotification, cancelAllNotifications. *)

\* the tokens of the tasks that can exist
NotificationIds ==
    {DeadlineToken(id) : id \in 1..MaxIdSmall} \cup {ReminderToken(id) : id \in 1..MaxIdSmall}

\* DELETE FROM tasks: the AUTOINCREMENT counter, the caches and the OS schedule stay
DeleteAllTasks ==
    /\ tasks' = [i \in {} |-> tasks[i]]
    /\ NoSweep
    /\ UNCHANGED <<now, nextId, activeTasks, archivedTasks, settings, periodVars,
                   scheduled, pending, result>>

(* cancelNotification up to its await: the native call is issued.  An error *)
(* of the call is caught and logged.                                        *)
CancelNotification(notificationId, throws) ==
    /\ CanSuspend
    /\ NoSweep
    /\ scheduled' = IF throws THEN scheduled
                    ELSE cancelScheduledNotificationAsync(scheduled, notificationId)
    /\ pending' = pending \cup
           {Call("cancelNotification", IF throws THEN "cancelFailed" ELSE "cancelled",
                 NULL, NULL, NULL, <<>>)}
    /\ UNCHANGED <<now, tasks, nextId, activeTasks, archivedTasks, settings, periodVars,
                   result>>

(* cancelAllNotifications up to its await: cancelAllScheduledNotificationsAsync *)
(* empties the OS schedule unless it throws.                                *)
CancelAllNotifications(throws) ==
    /\ CanSuspend
    /\ NoSweep
    /\ scheduled' = IF throws THEN scheduled ELSE {}
    /\ pending' = pending \cup
           {Call("cancelAllNotifications", IF throws THEN "cancelFailed" ELSE "cancelAll",
                 NULL, NULL, NULL, <<>>)}
    /\ UNCHANGED <<now, tasks, nextId, activeTasks, archivedTasks, settings, periodVars,
                   result>>

\* the await of cancelNotification or cancelAllNotifications returns: the call ends
CancelNotificationResume(c) ==
    /\ c \in pending /\ c.op \in {"cancelNotification", "cancelAllNotifications"}
    /\ NoSweep
    /\ pending' = pending \ {c}
    /\ UNCHANGED <<now, tasks, nextId, activeTasks, archivedTasks, settings, periodVars,
                   scheduled, result>>

NextExports ==
    \/ pending = {} /\ \E task \in TaskInputs : CreateTaskStart(task, NULL, MaxIdSmall)
    \/ \E id \in 1..MaxIdSmall : CompleteTaskStart(id)
    \/ DeleteAllTasks
    \/ \E n \in NotificationIds, throws \in BOOLEAN : CancelNotification(n, throws)
    \/ \E throws \in BOOLEAN : CancelAllNotifications(throws)
    \/ \E c \in pending : CancelNotificationResume(c)
    \/ \E c \in pending : CreateResumeDeadline(c)
    \/ \E c \in pending : CreateResumeReminder(c)
    \/ \E c \in pending : CompleteTaskResume(c)

SpecExports == Init /\ [][NextExports]_vars

-----------------------------------------------------------------------------
(* Properties *)

ActiveCount == Cardinality({i \in DOMAIN tasks : tasks[i].status = "active"})

(* C2: completeTask on an active task at a time t <= deadline + buffer_minutes *)
(* (the last minute of the buffer included) is accepted and, when it has run  *)
(* to its end, the task is completed with completed_at set; at a time         *)
(* t > deadline + buffer_minutes it fails with AlreadyExpired and leaves the  *)
(* table as it was.                                                           *)
C2_CompleteWithinBuffer ==
    [][ /\ \A id \in TaskIds :
             (id \in DOMAIN tasks /\ tasks[id].status = "active" /\ CompleteTaskStart(id)) =>
                IF now <= tasks[id].deadline + settings.buffer_minutes
                THEN /\ tasks' = tasks
                     /\ \E c \in pending' \ pending : c.op = "completeTask" /\ c.id = id
                ELSE /\ result' = Outcome("completeTask", id, "AlreadyExpired")
                     /\ tasks' = tasks
                     /\ pending' = pending
        /\ \A c \in pending :
             (c.op = "completeTask" /\ c.id \in DOMAIN tasks /\ CompleteTaskResume(c)) =>
                IF SecondCancelDue(c)
                THEN tasks' = tasks /\ result' = result
                ELSE /\ tasks'[c.id].status = "completed"
                     /\ tasks'[c.id].completed_at = now
                     /\ result' = Outcome("completeTask", c.id, "ok")
      ]_vars

\* a task was completed in the last minute of its buffer, after its deadline
C2_Witness ==
    \E id \in DOMAIN tasks :
        /\ tasks[id].status = "completed"
        /\ tasks[id].completed_at > tasks[id].deadline
        /\ tasks[id].completed_at = tasks[id].deadline + settings.buffer_minutes
        /\ now = tasks[id].completed_at
        /\ result = Outcome("completeTask", id, "ok")

(* C3: reEnableTask on a task with reactivation_count n inserts exactly one   *)
(* row: active, reactivation_count n + 1, original_task_id the original's id, *)
(* the original's title and description; no field of any other row changes,   *)
(* neither at the insert nor when the call stores the tokens of the new row.  *)
C3_ReEnableLineage ==
    [][ /\ \A id \in TaskIds :
             (id \in DOMAIN tasks /\ canCreateTask /\ ReEnableTaskStart(id, MaxId)) =>
                /\ nextId \notin DOMAIN tasks
                /\ DOMAIN tasks' = DOMAIN tasks \cup {nextId}
                /\ tasks'[nextId].status = "active"
                /\ tasks'[nextId].reactivation_count = tasks[id].reactivation_count + 1
                /\ tasks'[nextId].original_task_id = id
                /\ tasks'[nextId].title = tasks[id].title
                /\ tasks'[nextId].description = tasks[id].description
                /\ \A j \in DOMAIN tasks : tasks'[j] = tasks[j]
        /\ \A c \in pending :
             (c.op = "reEnableTask" /\ (CreateResumeDeadline(c) \/ CreateResumeReminder(c))) =>
                /\ DOMAIN tasks' = DOMAIN tasks
                /\ \A j \in DOMAIN tasks \ {c.id} : tasks'[j] = tasks[j]
      ]_vars

\* an expired task has been reactivated and the call has stored the new row's tokens
C3_Witness ==
    \E new \in DOMAIN tasks : \E orig \in DOMAIN tasks :
        /\ tasks[new].original_task_id = orig
        /\ tasks[orig].status = "expired_unfinished"
        /\ tasks[new].status = "active"
        /\ tasks[new].reactivation_count = tasks[orig].reactivation_count + 1
        /\ tasks[new].deadline_notification_id # NULL
        /\ result = Outcome("reEnableTask", new, "ok")

(* C1: in a state where the number of rows with status active equals the     *)
(* max_tasks setting, createTask fails with CapacityExceeded, the tasks table *)
(* is as before the call and no notification is scheduled.                    *)
C1_CreateAtCapacityFails ==
    [][ \A task \in TaskInputs :
          (ActiveCount = settings.max_tasks /\ CreateTaskStart(task, NULL, MaxId)) =>
             /\ result' = Outcome("createTask", NULL, "CapacityExceeded")
             /\ tasks' = tasks
             /\ scheduled' = scheduled
      ]_vars

(* C4: reEnableTask called when the number of rows with status active has     *)
(* reached the max_tasks setting fails with CapacityExceeded, inserts no row, *)
(* changes no row and schedules no notification.                              *)
C4_ReEnableAtCapacityFails ==
    [][ \A id \in TaskIds :
          (/\ id \in DOMAIN tasks
           /\ tasks[id].status = "expired_unfinished"
           /\ ActiveCount >= settings.max_tasks
           /\ ReEnableTaskStart(id, MaxId)) =>
             /\ result' = Outcome("reEnableTask", id, "CapacityExceeded")
             /\ tasks' = tasks
             /\ scheduled' = scheduled
      ]_vars

(* C5: an expiration sweep (checkAndExpireTasks or checkExpiredTasks) that    *)
(* runs directly after another one, at the same instant and with no other    *)
(* operation in between, changes no row of the tasks table and counts zero    *)
(* expired tasks.                                                             *)
C5_SweepTwiceIdempotent ==
    [][ /\ (hist \in {"swept", "second"} /\ hist' \in {"swept", "second"}) => tasks' = tasks
        /\ (hist = "swept" /\ CheckAndExpireTasks) => result'.count = 0
      ]_vars

(* C6: a row's status is written to expired_unfinished only if, at the moment *)
(* of the write, the row's status is active and now > its deadline +          *)
(* buffer_minutes; for both sweepers, and when an edit of the deadline comes  *)
(* between the steps of a suspended sweep.                                    *)
C6_ExpireOnlyActivePastBuffer ==
    [][ \A id \in DOMAIN tasks :
          (/\ id \in DOMAIN tasks'
           /\ tasks[id].status # "expired_unfinished"
           /\ tasks'[id].status = "expired_unfinished") =>
             /\ tasks[id].status = "active"
             /\ now > tasks[id].deadline + settings.buffer_minutes
      ]_vars

(* C7: completed is terminal: a row whose status is completed keeps that *)
(* status in every step of every interleaving.                           *)
C7_CompletedIsTerminal ==
    [][ \A id \in DOMAIN tasks :
          (tasks[id].status = "completed" /\ id \in DOMAIN tasks') =>
             tasks'[id].status = "completed"
      ]_vars

(* C8: in every reachable state every row has completed_at set if and only *)
(* if its status is completed.                                             *)
C8_CompletedAtIffCompleted ==
    \A id \in DOMAIN tasks :
        (tasks[id].completed_at # NULL) <=> (tasks[id].status = "completed")

(* C9: after any sequence of addTimePeriod, updateTimePeriod and              *)
(* deleteTimePeriod calls from the default period, no minute of the day lies *)
(* in two rows of time_periods (rows that wrap past midnight included), so   *)
(* getTaskCreationWindow matches at most one row; and while the table holds  *)
(* a row, it reports canCreate = false when no row contains the time of day. *)
C9_PeriodsDisjoint ==
    /\ \A m \in 0..(DayMinutes - 1) :
          Cardinality({i \in DOMAIN time_periods : PeriodContains(time_periods[i], m)}) <= 1
    /\ (/\ DOMAIN time_periods # {}
        /\ \A i \in DOMAIN time_periods : ~PeriodContains(time_periods[i], now))
          => ~getTaskCreationWindow.canCreate

(* C10: addTimePeriod, compared with every row, and updateTimePeriod,         *)
(* compared with every row but the updated one, reject the candidate if and   *)
(* only if some compared row satisfies s1 < e2 /\ s2 < e1 on minutes since    *)
(* midnight with 1440 added to an end that is <= its start; a rejected call   *)
(* writes nothing and an accepted one stores the candidate.  11:30-20:00 is   *)
(* rejected next to 05:00-12:00, 12:00-20:00 is accepted next to it, and an   *)
(* update of a row to its own bounds is accepted.                             *)
C10_OverlapDecides ==
    [][ LET S(p) == p.start_hour * 60 + p.start_minute
            E0(p) == p.end_hour * 60 + p.end_minute
            E(p) == IF E0(p) <= S(p) THEN E0(p) + 1440 ELSE E0(p)
            Hit(p, q) == S(p) < E(q) /\ S(q) < E(p)
            Rejected == result'.outcome = "OverlappingPeriod"
            Holds(i, p) == i \in DOMAIN time_periods' /\ time_periods'[i] = PeriodRow(i, p)
        IN  /\ \A p \in PeriodChoices :
                 AddTimePeriod(p) =>
                    /\ Rejected <=> \E i \in DOMAIN time_periods : Hit(p, time_periods[i])
                    /\ Rejected => time_periods' = time_periods
                    /\ ~Rejected => /\ Holds(nextPeriodId, p)
                                    /\ \A i \in DOMAIN time_periods :
                                          time_periods'[i] = time_periods[i]
            /\ \A id \in DOMAIN time_periods : \A p \in PeriodChoices :
                 UpdateTimePeriod(id, p) =>
                    /\ Rejected <=> \E i \in DOMAIN time_periods \ {id} :
                                       Hit(p, time_periods[i])
                    /\ Rejected => time_periods' = time_periods
                    /\ ~Rejected => /\ Holds(id, p)
                                    /\ \A i \in DOMAIN time_periods \ {id} :
                                          time_periods'[i] = time_periods[i]
                    /\ time_periods[id] = PeriodRow(id, p) => ~Rejected
            /\ (/\ \E i \in DOMAIN time_periods : time_periods[i] = PeriodRow(i, Morning)
                /\ AddTimePeriod(Midday)) => Rejected
            /\ (/\ \A i \in DOMAIN time_periods : time_periods[i] = PeriodRow(i, Morning)
                /\ AddTimePeriod(Afternoon)) => ~Rejected
      ]_vars

\* 12:00-20:00 was accepted next to 05:00-12:00, and a later addTimePeriod was rejected
C10_Witness ==
    /\ \E i \in DOMAIN time_periods : time_periods[i] = PeriodRow(i, Morning)
    /\ \E i \in DOMAIN time_periods : time_periods[i] = PeriodRow(i, Afternoon)
    /\ result = Outcome("addTimePeriod", NULL, "OverlappingPeriod")

(* C11: whenever the creation window is open at now with maximum W hours,    *)
(* validateCustomDeadline(d) accepts if and only if now < d <= now + W; a     *)
(* d <= now is refused as DeadlineInPast and a d > now + W as DeadlineTooFar. *)
(* With the period 05:00-21:00 of 6 hours at 18:00, 03:00 of the next day is  *)
(* refused.                                                                   *)
C11_CustomDeadlineRange ==
    [][ LET open == {i \in 1..Len(timePeriods) : PeriodContains(timePeriods[i], now)}
            W == timePeriods[CHOOSE i \in open : \A j \in open : i <= j].max_duration_hours
        IN  \A d \in CustomDeadlines :
              (open # {} /\ ValidateCustomDeadline(d)) =>
                 /\ result'.outcome = "ok" <=> (now < d /\ d <= now + W * 60)
                 /\ d <= now => result'.outcome = "DeadlineInPast"
                 /\ d > now + W * 60 => result'.outcome = "DeadlineTooFar"
                 /\ (/\ Len(timePeriods) = 1
                     /\ timePeriods[1] = PeriodRow(timePeriods[1].id, Period(5, 0, 21, 0, 6))
                     /\ now = StartNow + 8 * 60
                     /\ d = StartNow + 17 * 60) => result'.outcome = "DeadlineTooFar"
      ]_vars

\* at 18:00 under the default period the deadline 00:00 of the next day, the limit itself, was accepted
C11_Witness ==
    /\ now = StartNow + 8 * 60
    /\ Len(timePeriods) = 1 /\ timePeriods[1].max_duration_hours = 6
    /\ PeriodContains(timePeriods[1], now)
    /\ validateCustomDeadline(now + 6 * 60) = "ok"
    /\ validateCustomDeadline(now + 6 * 60 + 1) = "DeadlineTooFar"
    /\ result = Outcome("validateCustomDeadline", NULL, "ok")

(* C12: calculateDeadline fails with WindowClosed when the time of day of now *)
(* lies in no configured period and otherwise returns now + max_duration_hours *)
(* of the period that contains now (the first one in the store's order);       *)
(* under 05:00-21:00 of 6 hours at 18:00 it returns 00:00 of the next day.     *)
(* So createTask without a custom deadline fails and inserts nothing while the *)
(* window is closed, and stores that deadline while it is open.                *)
C12_WindowClosedOrDeadline ==
    [][ LET open == {i \in 1..Len(timePeriods) : PeriodContains(timePeriods[i], now)}
            W == timePeriods[CHOOSE i \in open : \A j \in open : i <= j].max_duration_hours
        IN  /\ (open = {}) <=> (calculateDeadline = NULL)
            /\ open # {} => calculateDeadline = now + W * 60
            /\ (/\ Len(timePeriods) = 1
                /\ timePeriods[1] = PeriodRow(timePeriods[1].id, Period(5, 0, 21, 0, 6))
                /\ now = StartNow + 8 * 60) => calculateDeadline = StartNow + 14 * 60
            /\ \A task \in TaskInputs :
                 (canCreateTask /\ CreateTaskStart(task, NULL, MaxId)) =>
                    IF open = {}
                    THEN /\ result' = Outcome("createTask", NULL, "WindowClosed")
                         /\ tasks' = tasks
                         /\ scheduled' = scheduled
                    ELSE /\ DOMAIN tasks' = DOMAIN tasks \cup {nextId}
                         /\ tasks'[nextId].deadline = now + W * 60
      ]_vars

\* a task created at 18:00 got the deadline 00:00 of the next day, and a createTask at a
\* time of day outside every period failed with WindowClosed
C12_Witness ==
    /\ \E id \in DOMAIN tasks :
          /\ tasks[id].created_at = StartNow + 8 * 60
          /\ tasks[id].deadline = StartNow + 14 * 60
    /\ \A i \in 1..Len(timePeriods) : ~PeriodContains(timePeriods[i], now)
    /\ result = Outcome("createTask", NULL, "WindowClosed")

(* C13: while the interval timer keeps firing, every task that is active at *)
(* a time now > deadline + buffer_minutes eventually has the status          *)
(* expired_unfinished or has been deleted.                                   *)
C13_ExpiredEventually ==
    \A id \in 1..MaxIdSmall :
        PastBuffer(id) ~> (id \notin DOMAIN tasks \/ tasks[id].status = "expired_unfinished")

(* C14: once completeTask, deleteTask or an expiry by either sweeper has     *)
(* finished for a task whose notification tokens were stored, neither its    *)
(* reminder nor its deadline notification is still scheduled.                *)
C14_NoNotificationLeft ==
    pending = {} =>
        \A id \in 1..MaxIdSmall :
            (/\ id < nextId
             /\ \/ id \notin DOMAIN tasks
                \/ /\ tasks[id].status \in {"completed", "expired_unfinished"}
                   /\ HasTokens(tasks[id]))
              => /\ ~StillScheduled(ReminderToken(id))
                 /\ ~StillScheduled(DeadlineToken(id))

(* C15: in every reachable state every row of tasks has deadline >          *)
(* created_at, after any sequence of createTask (with or without a custom    *)
(* deadline), updateTask and reEnableTask.                                   *)
C15_DeadlineAfterCreation ==
    \A id \in DOMAIN tasks : tasks[id].deadline > tasks[id].created_at

(* C16: updateTask on a task that is completed or expired_unfinished is      *)
(* rejected and changes nothing, and an edit that changes the deadline is    *)
(* accepted only if now < new deadline <= now + the window's max hours,      *)
(* evaluated at the time of the edit.                                        *)
C16_UpdateOnlyActiveInWindow ==
    [][\A id \in 1..MaxIdSmall, u \in Updates :
          UpdateTask(id, u) /\ id \in DOMAIN tasks =>
              /\ tasks[id].status # "active" =>
                     tasks' = tasks /\ result'.outcome # "ok"
              /\ tasks'[id].deadline # tasks[id].deadline =>
                     validateCustomDeadline(u.deadline) = "ok"]_vars

\* the notification of that token is in the set handed to the OS
Scheduled(token) == \E n \in scheduled : n.token = token

\* a createTask call has just inserted its row and suspended
CreateInserted(c) ==
    c \in pending' \ pending /\ c.op = "createTask" /\ c.pc = "deadlineScheduled"

\* a createTask call has just run to its end
CreateFinished(c) ==
    /\ c \in pending /\ c.op = "createTask"
    /\ pending' = pending \ {c}
    /\ result'.op = "createTask" /\ result'.outcome = "ok"

(* C17: a createTask that succeeds inserts exactly one row, with status     *)
(* active, reactivation_count 0, no original task and created_at = now, and *)
(* when the call has finished the row holds the token (or null) returned by *)
(* the deadline scheduling call and the token (or null) returned by the     *)
(* reminder scheduling call: the token of each notification that was        *)
(* scheduled, null for one that was not.                                    *)
C17_CreatePersistsOne ==
    [][/\ \A c \in pending' :
              CreateInserted(c) =>
                  /\ c.id \notin DOMAIN tasks
                  /\ DOMAIN tasks' = DOMAIN tasks \cup {c.id}
                  /\ \A i \in DOMAIN tasks : tasks'[i] = tasks[i]
                  /\ tasks'[c.id].status = "active"
                  /\ tasks'[c.id].reactivation_count = 0
                  /\ tasks'[c.id].original_task_id = NULL
                  /\ tasks'[c.id].created_at = now
       /\ \A c \in pending :
              CreateFinished(c) =>
                  /\ c.id \in DOMAIN tasks'
                  /\ tasks'[c.id].deadline_notification_id =
                         IF Scheduled(DeadlineToken(c.id))' THEN DeadlineToken(c.id)
                         ELSE NULL
                  /\ tasks'[c.id].reminder_notification_id =
                         IF Scheduled(ReminderToken(c.id))' THEN ReminderToken(c.id)
                         ELSE NULL]_vars

\* a createTask has finished and its row holds both tokens
C17_Witness ==
    /\ result.op = "createTask" /\ result.outcome = "ok" /\ pending = {}
    /\ \E id \in DOMAIN tasks :
           /\ tasks[id].original_task_id = NULL
           /\ tasks[id].deadline_notification_id = DeadlineToken(id)
           /\ tasks[id].reminder_notification_id = ReminderToken(id)

(* C18: after any sequence of add, update and delete of time periods the    *)
(* stored set of periods is not empty: a delete requested while one period  *)
(* is stored is refused, and a delete that is carried out, by the confirmed *)
(* alert of handleDeletePeriod, leaves at least one period in place.        *)
C18_AtLeastOnePeriod ==
    [][/\ DOMAIN time_periods # {} => DOMAIN time_periods' # {}
       /\ \A id \in PeriodIds :
              HandleDeletePeriod(id) /\ Cardinality(DOMAIN time_periods) = 1 =>
                  /\ time_periods' = time_periods
                  /\ pending' = pending
                  /\ result'.outcome = "LastPeriod"
       /\ \A c \in pending :
              ConfirmDeletePeriod(c) /\ Cardinality(DOMAIN time_periods) = 1 =>
                  time_periods' = time_periods]_vars

\* created_at lies in the range, both ends included
CreatedIn(id, start, end) == start <= tasks[id].created_at /\ tasks[id].created_at <= end

(* C19: getStats(start, end) returns the number of completed tasks created  *)
(* in [start, end], the number of expired_unfinished tasks created in       *)
(* [start, end], and the sum of reactivation_count over all tasks created   *)
(* in [start, end], which is 0 when there is none.                          *)
C19_StatsCounts ==
    [][\A start, end \in StatsInstants :
          GetStats(start, end) =>
              /\ result'.stats.finished =
                     Cardinality({id \in DOMAIN tasks :
                         tasks[id].status = "completed" /\ CreatedIn(id, start, end)})
              /\ result'.stats.unfinished =
                     Cardinality({id \in DOMAIN tasks :
                         tasks[id].status = "expired_unfinished" /\ CreatedIn(id, start, end)})
              /\ result'.stats.totalAttempts =
                     Cardinality({p \in (DOMAIN tasks) \X (1..MaxIdStats) :
                         CreatedIn(p[1], start, end)
                         /\ p[2] <= tasks[p[1]].reactivation_count})]_vars

\* a range that leaves out the first task of a chain of three: the second is
\* expired, the third, re-enabled twice, is completed
C19_Witness ==
    /\ result.op = "getStats"
    /\ result.stats = [finished |-> 1, unfinished |-> 1, totalAttempts |-> 3]
    /\ Cardinality(DOMAIN tasks) = 3
    /\ \E id \in DOMAIN tasks :
           tasks[id].reactivation_count = 2 /\ tasks[id].status = "completed"

\* the operations that write to the tasks table
MutatingOps ==
    {"createTask", "updateTask", "completeTask", "deleteTask", "reEnableTask",
     "checkExpiredTasks", "checkAndExpireTasks"}

(* C20: when a mutating operation (createTask, updateTask, completeTask,    *)
(* deleteTask, reEnableTask, a sweep of either sweeper) has finished and no *)
(* call is suspended, activeTasks is the list of stored active tasks and    *)
(* archivedTasks holds the stored completed and expired_unfinished tasks.   *)
C20_CachesMatchStore ==
    pending = {} /\ result.op \in MutatingOps =>
        /\ activeTasks = db_getActiveTasks(tasks)
        /\ archivedTasks = db_getArchivedTasks(tasks)

\* a reEnableTask call has just inserted its row and suspended
ReEnableInserted(c) ==
    c \in pending' \ pending /\ c.op = "reEnableTask" /\ c.pc = "deadlineScheduled"

(* C21: the task inserted by reEnableTask at time now has created_at = now  *)
(* and deadline = now + max_duration_hours of the configured period that    *)
(* contains now, the value calculateDeadline returns at that instant.       *)
C21_ReEnableDeadline ==
    [][\A c \in pending' :
          ReEnableInserted(c) /\ getTaskCreationWindow.canCreate =>
              /\ tasks'[c.id].created_at = now
              /\ tasks'[c.id].deadline = calculateDeadline]_vars

\* the tasks that name id as their predecessor
Successors(id) == {j \in DOMAIN tasks : tasks[j].original_task_id = id}

(* C22: in every reachable state each task is named as predecessor          *)
(* (original_task_id) by at most one other task, whatever reEnableTask      *)
(* calls were made, the same expired task reactivated twice included.       *)
C22_LineageIsChain ==
    \A id \in DOMAIN tasks : Cardinality(Successors(id)) <= 1

\* deleteTask for taskId has just run to its end
DeleteFinished(taskId) ==
    \/ DeleteTaskStart(taskId) /\ pending' = pending
    \/ \E c \in pending : c.id = taskId /\ ~SecondCancelDue(c) /\ DeleteTaskResume(c)

(* C23: deleteTask on a task of any status removes exactly that row: no row *)
(* with that id remains and every other row, a row whose original_task_id   *)
(* names the deleted task included, keeps all its fields; until the call    *)
(* has finished the table is as it was.                                     *)
C23_DeleteExactlyOne ==
    [][\A id \in TaskIds :
          /\ DeleteFinished(id) =>
                 /\ DOMAIN tasks' = DOMAIN tasks \ {id}
                 /\ \A j \in DOMAIN tasks' : tasks'[j] = tasks[j]
          /\ DeleteTaskStart(id) /\ pending' # pending => tasks' = tasks
          /\ (\E c \in pending : SecondCancelDue(c) /\ DeleteTaskResume(c)) =>
                 tasks' = tasks]_vars

\* a task has been deleted while another names it as its original
C23_Witness ==
    /\ result.op = "deleteTask" /\ result.outcome = "ok" /\ pending = {}
    /\ \E j \in DOMAIN tasks :
           /\ tasks[j].original_task_id # NULL
           /\ tasks[j].original_task_id \notin DOMAIN tasks

\* the cancel call of the suspended call c threw
CancelFailed(c) ==
    c \in pending /\ c.pc \in {"cancelFailed", "rethrown"}

(* C24: when the cancel call of the notification collaborator has thrown,   *)
(* completeTask still marks the task completed, deleteTask still removes    *)
(* the row and the store sweep still marks the task expired_unfinished, and *)
(* none of them reports a failure.                                          *)
C24_CancelFailureSwallowed ==
    [][\A c \in pending :
          CancelFailed(c) =>
              /\ CompleteTaskResume(c) =>
                     /\ tasks'[c.id].status = "completed"
                     /\ result'.outcome = "ok"
              /\ DeleteTaskResume(c) =>
                     /\ c.id \notin DOMAIN tasks'
                     /\ result'.outcome = "ok"
              /\ (\E throws \in BOOLEAN : CheckExpiredTasksResumeCancel(c, throws)) =>
                     /\ tasks'[Head(c.rest).id].status = "expired_unfinished"
                     /\ result'.outcome # "Failed"]_vars

\* a task is completed although one of its notifications could not be cancelled
C24_Witness ==
    /\ pending = {} /\ result.op = "completeTask" /\ result.outcome = "ok"
    /\ \E id \in DOMAIN tasks :
           /\ tasks[id].status = "completed"
           /\ \E n \in scheduled : n.token = tasks[id].deadline_notification_id

(* C25: a row whose status is expired_unfinished keeps that status in every *)
(* later state in which it exists, whatever the interleaving of             *)
(* completeTask with the sweeps.                                            *)
C25_ExpiredIsPermanent ==
    [][\A id \in DOMAIN tasks \cap DOMAIN tasks' :
          tasks[id].status = "expired_unfinished" =>
              tasks'[id].status = "expired_unfinished"]_vars

(* C26: when createTask and reEnableTask calls overlap, one starting while  *)
(* another is suspended at a scheduling await, the number of rows with      *)
(* status active never exceeds the max_tasks setting.                       *)
C26_ConcurrentWithinCapacity == ActiveCount <= settings.max_tasks

(* C27: the limit createTask and reEnableTask enforce is the stored         *)
(* max_tasks setting: with the window open, the call inserts a row when the *)
(* number of rows with status active is below the setting, and fails with   *)
(* CapacityExceeded, inserting nothing, when it has reached the setting.    *)
C27_LimitIsStoredSetting ==
    [][/\ \A task \in TaskInputs :
              CreateTaskStart(task, NULL, MaxId) /\ getTaskCreationWindow.canCreate =>
                  IF ActiveCount < settings.max_tasks
                  THEN DOMAIN tasks' = DOMAIN tasks \cup {nextId}
                  ELSE /\ result' = Outcome("createTask", NULL, "CapacityExceeded")
                       /\ tasks' = tasks
       /\ \A id \in DOMAIN tasks :
              ReEnableTaskStart(id, MaxId) /\ getTaskCreationWindow.canCreate =>
                  IF ActiveCount < settings.max_tasks
                  THEN DOMAIN tasks' = DOMAIN tasks \cup {nextId}
                  ELSE /\ result' = Outcome("reEnableTask", id, "CapacityExceeded")
                       /\ tasks' = tasks]_vars

\* the call fails with NotFound and leaves the table and the notifications alone
FailsNotFound ==
    result'.outcome = "NotFound" /\ tasks' = tasks /\ scheduled' = scheduled

(* C28: updateTask, completeTask, reEnableTask and deleteTask addressed to  *)
(* an id that has no row fail with NotFound and change neither the tasks    *)
(* table nor the scheduled notifications.                                   *)
C28_MissingIdNotFound ==
    [][\A id \in TaskIds \ DOMAIN tasks :
          /\ (\E u \in Updates : UpdateTask(id, u)) => FailsNotFound
          /\ CompleteTaskStart(id) => FailsNotFound
          /\ ReEnableTaskStart(id, MaxIdSmall) => FailsNotFound
          /\ DeleteTaskStart(id) => FailsNotFound]_vars

\* the createTask or reEnableTask call c runs to its end and no call is left
InsertingCallFinishes(c) ==
    /\ c \in pending /\ c.op \in {"createTask", "reEnableTask"}
    /\ CreateResumeDeadline(c) \/ CreateResumeReminder(c)
    /\ pending' = {}

(* C29: when the task a createTask or reEnableTask call inserted has been   *)
(* completed or deleted while that call was suspended at a scheduling       *)
(* await, then once all calls have finished neither notification of the     *)
(* task is still scheduled.                                                 *)
C29_NoNotificationAfterEarlyEnd ==
    [][\A c \in pending :
          (/\ InsertingCallFinishes(c)
           /\ \/ c.id \notin DOMAIN tasks'
              \/ tasks'[c.id].status = "completed")
          => /\ ~StillScheduled(ReminderToken(c.id))'
             /\ ~StillScheduled(DeadlineToken(c.id))']_vars

\* the times at which the notification of that token is scheduled
ScheduledAt(token) == {n.at : n \in {m \in scheduled : m.token = token}}

(* C30: for every active task that holds a deadline-notification token, the *)
(* notification of that token is scheduled for the task's stored deadline   *)
(* plus the stored buffer_minutes, for every buffer_minutes >= 0, also      *)
(* after the deadline or buffer_minutes has been edited (stated for the     *)
(* states in which no call is suspended).                                   *)
C30_NotificationTimeFollows ==
    pending = {} =>
        \A id \in DOMAIN tasks :
            (tasks[id].status = "active" /\ tasks[id].deadline_notification_id # NULL) =>
                ScheduledAt(tasks[id].deadline_notification_id) =
                    {tasks[id].deadline + settings.buffer_minutes}

====
